---- MODULE Spec2Model ----
(***************************************************************************)
(* A model of common.py of erc20-load-rig: the nonce-tracking account      *)
(* handle, transaction signing and broadcast, the confirmation poller, the *)
(* retry-on-timeout decorator and the append-only CSV writer.              *)
(*                                                                         *)
(* The node behind w3.eth is the environment: every remote call draws its *)
(* reply from a small set (a timeout, a non-timeout error, or a value).    *)
(* Python values that may be None are options: <<>> is None, <<v>> is v.   *)
(***************************************************************************)
EXTENDS Integers, Sequences, FiniteSets, TLC

VARIABLES
    acct,    \* the AccountWrapper: [live, key, nonce, init, given]
    rets,    \* the values returned by get_use_nonce on the handle, in call order
    txReads, \* how often the handle's operations and the tx helpers read the node's transaction count
    last,    \* the call in progress or, if none is, the last completed: [op, args, log, outcome]
    csv,     \* the CSVWriter: [live, cols]
    file,    \* the contents of the file at the writer's path, a sequence of characters
    written, \* the rows passed to the append and append_all calls that returned, in call order
    thr,     \* per execution context: its position in get_use_nonce
    tdone    \* per execution context: its completed get_use_nonce calls

vars == <<acct, rets, txReads, last, csv, file, written, thr, tdone>>

----------------------------------------------------------------------------
(* Bounds of the model *)

MaxTimeouts == 2     \* timeouts the node answers to one wrapped call
MaxPolls == 3        \* unmined polls of one wait_for_tx call
MaxUses == 3         \* get_use_nonce calls on one handle
MaxCount == 2        \* the node reports counts, balances and block numbers in 0..MaxCount
MaxWrites == 2       \* append and append_all calls that write to one CSV file
MaxRows == 2         \* rows appended to one CSV file
MaxRowLen == 2       \* values in one CSV row
MaxThreadCalls == 2  \* get_use_nonce calls per execution context

----------------------------------------------------------------------------
(* Python values *)

None == <<>>
Some(v) == <<v>>

Return(v) == [kind |-> "return", exc |-> "", val |-> Some(v)]
ReturnNone == [kind |-> "return", exc |-> "", val |-> None]
Raise(e) == [kind |-> "raise", exc |-> e, val |-> None]
NoOutcome == [kind |-> "none", exc |-> "", val |-> None]

\* web3.utils.threads.Timeout, and any other exception of a node call
TimeoutReply == [kind |-> "timeout", val |-> None]
ErrorReply == [kind |-> "error", val |-> None]
Ok(v) == [kind |-> "ok", val |-> Some(v)]

\* What a node call may answer when its values are drawn from vals
Replies(vals) == {TimeoutReply, ErrorReply} \cup {Ok(v) : v \in vals}

\* The exception a failed node call raises in its caller
Exc(reply) == IF reply.kind = "timeout" THEN "Timeout" ELSE "ValueError"

Counts == 0 .. MaxCount

\* One invocation of a function that calls the node: the function, its arguments, the reply
Call(fn, args, reply) == [fn |-> fn, args |-> args, reply |-> reply]

Done(op, args, log, outcome) == [op |-> op, args |-> args, log |-> log, outcome |-> outcome]
NoCall == Done("none", <<>>, <<>>, NoOutcome)
\* A looping call (ignore_timeouts' wrapper, wait_for_tx) is in progress
Running == last.op # "none" /\ last.outcome = NoOutcome

----------------------------------------------------------------------------
(* Keys, addresses, hashes: the library conversions, none of them the identity *)

CHAIN_ID == 1

Keys == {"k1", "bad"}
\* Account.privateKeyToAccount and signTransaction reject a malformed key
ValidKey(k) == k # "bad"
Address(k) == <<"address", k>>
to_hex(b) == <<"0x", b>>
Keccak(raw) == <<"keccak", raw>>

\* w3.eth.account.signTransaction(tx_dict, private_key)
signTransaction(tx_dict, k) ==
    LET raw == [tx |-> tx_dict, signer |-> k]
    IN [rawTransaction |-> raw, hash |-> Keccak(raw)]

\* No CSVWriter yet
NoWriter == [live |-> FALSE, cols |-> <<>>, writes |-> 0]

NoAccount == [live |-> FALSE, key |-> "", nonce |-> 0, init |-> 0, given |-> FALSE]
Handle(k, n, given) == [live |-> TRUE, key |-> k, nonce |-> n, init |-> n, given |-> given]

\* The w3.eth.getTransactionCount invocations among the node calls of log
TxCountCalls(log) ==
    Cardinality({i \in DOMAIN log : log[i].fn = "w3.eth.getTransactionCount"})

----------------------------------------------------------------------------
(* AccountWrapper *)

\* __init__(private_key, nonce): nonce is None or Some(n); reply is the node's
\* answer to the transaction-count query, made only when nonce is None
AccountWrapper(private_key, nonce, reply) ==
    IF ~ValidKey(private_key)
    THEN [acct |-> NoAccount, log |-> <<>>, outcome |-> Raise("ValueError")]
    ELSE IF nonce = None
    THEN LET log == <<Call("w3.eth.getTransactionCount", <<Address(private_key)>>, reply)>>
         IN IF reply.kind = "ok"
            THEN [acct |-> Handle(private_key, reply.val[1], FALSE), log |-> log,
                  outcome |-> ReturnNone]
            ELSE [acct |-> NoAccount, log |-> log, outcome |-> Raise(Exc(reply))]
    ELSE [acct |-> Handle(private_key, nonce[1], TRUE), log |-> <<>>, outcome |-> ReturnNone]

\* self.nonce += 1
get_use_nonce_store(n) == n + 1
\* (mutant) the counter as re-read, returned as it is
get_use_nonce_return_stored(n) == n
\* return self.nonce - 1, n being the counter as re-read
get_use_nonce_return(n) == n - 1

\* (mutant) balance() that also takes the counter afresh from the node
balance_resync(a, reply) ==
    [acct |-> IF reply.kind = "ok" THEN [a EXCEPT !.nonce = reply.val[1]] ELSE a,
     log |-> <<Call("w3.eth.getBalance", <<Address(a.key)>>, reply),
               Call("w3.eth.getTransactionCount", <<Address(a.key)>>, reply)>>,
     outcome |-> IF reply.kind = "ok" THEN Return(reply.val[1]) ELSE Raise(Exc(reply))]

\* balance(): w3.eth.getBalance(self.account.address), called bare
balance(a, reply) ==
    [acct |-> a,
     log |-> <<Call("w3.eth.getBalance", <<Address(a.key)>>, reply)>>,
     outcome |-> IF reply.kind = "ok" THEN Return(reply.val[1]) ELSE Raise(Exc(reply))]

NonceArgs == {None} \cup {Some(n) : n \in Counts}

\* A call that runs to its end in one step, on or beside handle a
Completes(op, args, a, log, outcome) ==
    /\ ~Running
    /\ acct' = a
    /\ txReads' = txReads + TxCountCalls(log)
    /\ last' = Done(op, args, log, outcome)
    /\ UNCHANGED <<csv, file, written, thr, tdone>>

NewAccountWrapper ==
    /\ ~acct.live
    /\ \E k \in Keys, n \in NonceArgs, reply \in Replies(Counts) :
          LET r == AccountWrapper(k, n, reply)
          IN /\ ~Running
             /\ acct' = r.acct
             /\ rets' = <<>>
             /\ txReads' = TxCountCalls(r.log)
             /\ last' = Done("AccountWrapper", <<k, n>>, r.log, r.outcome)
             /\ UNCHANGED <<csv, file, written, thr, tdone>>

\* create_account(): AccountWrapper(Account.create().privateKey, 0)
create_account ==
    /\ ~acct.live
    /\ LET r == AccountWrapper("k1", Some(0), TimeoutReply)
       IN /\ ~Running
          /\ acct' = r.acct
          /\ rets' = <<>>
          /\ txReads' = TxCountCalls(r.log)
          /\ last' = Done("create_account", <<>>, r.log, r.outcome)
          /\ UNCHANGED <<csv, file, written, thr, tdone>>

GetUseNonce ==
    /\ acct.live
    /\ Len(rets) < MaxUses
    /\ LET stored == get_use_nonce_store(acct.nonce)
           ret == get_use_nonce_return(stored)
       IN /\ rets' = Append(rets, ret)
          /\ Completes("get_use_nonce", <<>>, [acct EXCEPT !.nonce = stored], <<>>, Return(ret))

GetAddress ==
    /\ acct.live
    /\ UNCHANGED rets
    /\ Completes("address", <<>>, acct, <<>>, Return(Address(acct.key)))

GetPrivateKey ==
    /\ acct.live
    /\ UNCHANGED rets
    /\ Completes("private_key", <<>>, acct, <<>>, Return(to_hex(acct.key)))

Balance ==
    /\ acct.live
    /\ UNCHANGED rets
    /\ \E reply \in Replies(Counts) :
          LET r == balance(acct, reply)
          IN Completes("balance", <<>>, r.acct, r.log, r.outcome)

----------------------------------------------------------------------------
(* Signing and broadcast *)

\* (mutant) sign_send_tx that broadcasts again after a timeout
sign_send_tx_retry(from_account, tx_dict, reply) ==
    IF ~ValidKey(from_account.privateKey)
    THEN [log |-> <<>>, outcome |-> Raise("ValueError")]
    ELSE LET signed_tx == signTransaction(tx_dict, from_account.privateKey)
             sent == Call("w3.eth.sendRawTransaction", <<signed_tx.rawTransaction>>, reply)
         IN [log |-> IF reply.kind = "timeout"
                     THEN <<sent, Call("w3.eth.sendRawTransaction", <<signed_tx.rawTransaction>>,
                                       Ok(signed_tx.hash))>>
                     ELSE <<sent>>,
             outcome |-> IF reply.kind = "error" THEN Raise(Exc(reply))
                         ELSE Return(to_hex(signed_tx.hash))]

\* sign_send_tx(from_account, tx_dict); reply is the node's answer to the broadcast
sign_send_tx(from_account, tx_dict, reply) ==
    IF ~ValidKey(from_account.privateKey)
    THEN [log |-> <<>>, outcome |-> Raise("ValueError")]
    ELSE LET signed_tx == signTransaction(tx_dict, from_account.privateKey)
             log == <<Call("w3.eth.sendRawTransaction", <<signed_tx.rawTransaction>>, reply)>>
         IN [log |-> log,
             outcome |-> IF reply.kind = "ok" THEN Return(to_hex(reply.val[1]))
                         ELSE IF reply.kind = "timeout" THEN Return(to_hex(signed_tx.hash))
                         ELSE Raise(Exc(reply))]

ether_tx(nonce, to_address, val, gas_price, gas_limit) ==
    [to |-> to_address, gas |-> gas_limit, gasPrice |-> gas_price, value |-> val,
     chainId |-> CHAIN_ID, nonce |-> nonce, data |-> <<>>]

ERC20_ADDRESS == "0xToken"
\* ERC20_CONTRACT.functions.transfer(to_address, val).buildTransaction(tx)
token_tx(nonce, to_address, val, gas_price, gas_limit) ==
    [to |-> ERC20_ADDRESS, gas |-> gas_limit, gasPrice |-> gas_price, value |-> 0,
     chainId |-> CHAIN_ID, nonce |-> nonce, data |-> <<"transfer", to_address, val>>]

send_ether(from_account, nonce, to_address, val, gas_price, gas_limit, reply) ==
    sign_send_tx(from_account, ether_tx(nonce, to_address, val, gas_price, gas_limit), reply)

send_tokens(from_account, nonce, to_address, val, gas_price, gas_limit, reply) ==
    sign_send_tx(from_account, token_tx(nonce, to_address, val, gas_price, gas_limit), reply)

\* What the node answers to a broadcast of raw: a timeout, a rejection, or the hash
SendReplies(raw) == Replies({Keccak(raw)})
Senders == {[privateKey |-> k] : k \in Keys}
Recipients == {"0xB"}
Amounts == {5}
TxNonces == 0 .. 1

SignSendTx ==
    /\ UNCHANGED rets
    /\ \E from \in Senders, n \in TxNonces :
          LET tx == ether_tx(n, "0xB", 5, 1, 21000)
          IN \E reply \in SendReplies(signTransaction(tx, from.privateKey).rawTransaction) :
                LET r == sign_send_tx(from, tx, reply)
                IN Completes("sign_send_tx", <<from, tx>>, acct, r.log, r.outcome)

SendEther ==
    /\ UNCHANGED rets
    /\ \E from \in Senders, n \in TxNonces, to \in Recipients, v \in Amounts :
          LET tx == ether_tx(n, to, v, 1, 21000)
          IN \E reply \in SendReplies(signTransaction(tx, from.privateKey).rawTransaction) :
                LET r == send_ether(from, n, to, v, 1, 21000, reply)
                IN Completes("send_ether", <<from, tx>>, acct, r.log, r.outcome)

SendTokens ==
    /\ UNCHANGED rets
    /\ \E from \in Senders, n \in TxNonces, to \in Recipients, v \in Amounts :
          LET tx == token_tx(n, to, v, 1, 60000)
          IN \E reply \in SendReplies(signTransaction(tx, from.privateKey).rawTransaction) :
                LET r == send_tokens(from, n, to, v, 1, 60000, reply)
                IN Completes("send_tokens", <<from, tx>>, acct, r.log, r.outcome)

----------------------------------------------------------------------------
(* wait_for_tx *)

\* Python truth of a receipt (None or an AttributeDict) and of its blockNumber
TruthyReceipt(tx) == tx # None
TruthyInt(n) == n # None /\ n[1] # 0

\* A receipt the node may report: none, one still pending, one in block b
Receipts ==
    {None, Some([blockNumber |-> None])} \cup {Some([blockNumber |-> Some(b)]) : b \in Counts}

\* One pass of the loop of wait_for_tx on the node's reply: what the call does next
wait_for_tx(reply) ==
    IF reply.kind # "ok" THEN Raise(Exc(reply))
    ELSE LET tx == reply.val[1]
         IN IF TruthyReceipt(tx) /\ TruthyInt(tx[1].blockNumber) THEN ReturnNone
            ELSE NoOutcome    \* time.sleep(1), and around again

TxHashes == {"0xh1", "0xh2"}

\* The module-level functions ignore_timeouts decorates; they take no handle
Wrapped == {"get_block", "get_latest_block", "get_transaction_count", "get_balance"}

Begins(op, args) ==
    /\ last' = Done(op, args, <<>>, NoOutcome)
    /\ UNCHANGED <<acct, rets, txReads, csv, file, written, thr, tdone>>

\* The pass just made ends the call with outcome o, or (NoOutcome) leaves it looping
Passes(log, o) ==
    /\ last' = Done(last.op, last.args, log, o)
    /\ txReads' = txReads + (IF last.op \in Wrapped THEN 0 ELSE TxCountCalls(<<log[Len(log)]>>))
    /\ UNCHANGED <<acct, rets, csv, file, written, thr, tdone>>

WaitForTx ==
    /\ ~Running
    /\ \E h \in TxHashes : Begins("wait_for_tx", <<h>>)

WaitForTxPoll ==
    /\ Running /\ last.op = "wait_for_tx"
    /\ \E reply \in Replies(Receipts) :
          LET o == wait_for_tx(reply)
              log == Append(last.log, Call("w3.eth.getTransactionReceipt", last.args, reply))
          IN /\ o = NoOutcome => Len(last.log) < MaxPolls
             /\ Passes(log, o)

----------------------------------------------------------------------------
(* ignore_timeouts and the functions it decorates *)

\* The decorated functions: the node call each one makes with its arguments
get_block(args, reply) == Call("w3.eth.getBlock", <<args[1]>>, reply)
get_latest_block(args, reply) == Call("w3.eth.getBlock", <<"latest">>, reply)
get_transaction_count(args, reply) == Call("w3.eth.getTransactionCount", <<args[1]>>, reply)
get_balance(args, reply) == Call("w3.eth.getBalance", <<args[1]>>, reply)

Invoke(f, args, reply) ==
    CASE f = "get_block" -> get_block(args, reply)
      [] f = "get_latest_block" -> get_latest_block(args, reply)
      [] f = "get_transaction_count" -> get_transaction_count(args, reply)
      [] f = "get_balance" -> get_balance(args, reply)

\* (mutant) a wrapper that retries after any exception
ignore_timeouts_any(reply) ==
    IF reply.kind = "ok" THEN Return(reply.val[1]) ELSE NoOutcome

\* One pass of wrapper's loop: f was invoked and ended as reply says
ignore_timeouts(reply) ==
    IF reply.kind = "ok" THEN Return(reply.val[1])
    ELSE IF reply.kind = "timeout" THEN NoOutcome    \* log, and around again
    ELSE Raise(Exc(reply))

Timeouts(log) == Cardinality({i \in DOMAIN log : log[i].reply.kind = "timeout"})

GetBlock ==
    /\ ~Running
    /\ \E n \in Counts : Begins("get_block", <<n>>)

GetLatestBlock ==
    /\ ~Running
    /\ Begins("get_latest_block", <<>>)

GetTransactionCount ==
    /\ ~Running
    /\ \E k \in Keys \ {"bad"} : Begins("get_transaction_count", <<Address(k)>>)

GetBalance ==
    /\ ~Running
    /\ \E k \in Keys \ {"bad"} : Begins("get_balance", <<Address(k)>>)

WrapperPass ==
    /\ Running /\ last.op \in Wrapped
    /\ \E reply \in Replies(Counts) :
          LET o == ignore_timeouts(reply)
              log == Append(last.log, Invoke(last.op, last.args, reply))
          IN /\ reply.kind = "timeout" => Timeouts(last.log) < MaxTimeouts
             /\ Passes(log, o)

----------------------------------------------------------------------------
(* The sequential program: one handle, one caller *)

Init ==
    /\ acct = NoAccount
    /\ rets = <<>>
    /\ txReads = 0
    /\ last = NoCall
    /\ csv = NoWriter
    /\ file = <<>>
    /\ written = <<>>
    /\ thr = <<>>
    /\ tdone = <<>>

Next ==
    \/ NewAccountWrapper
    \/ create_account
    \/ GetUseNonce
    \/ GetAddress
    \/ GetPrivateKey
    \/ Balance
    \/ SignSendTx
    \/ SendEther
    \/ SendTokens
    \/ WaitForTx
    \/ WaitForTxPoll
    \/ GetBlock
    \/ GetLatestBlock
    \/ GetTransactionCount
    \/ GetBalance
    \/ WrapperPass

Spec == Init /\ [][Next]_vars

----------------------------------------------------------------------------
(* CSVWriter: text is a sequence of characters *)

Digits == <<"0", "1", "2", "3", "4", "5", "6", "7", "8", "9">>

\* str(v) of an integer
RECURSIVE str(_)
str(v) ==
    IF v < 0 THEN <<"-">> \o str(-v)
    ELSE IF v < 10 THEN <<Digits[v + 1]>>
    ELSE str(v \div 10) \o <<Digits[(v % 10) + 1]>>

stringify_list(l) == [i \in 1 .. Len(l) |-> str(l[i])]

\* sep.join(l)
RECURSIVE join(_, _)
join(sep, l) ==
    IF l = <<>> THEN <<>>
    ELSE IF Len(l) = 1 THEN l[1]
    ELSE l[1] \o sep \o join(sep, Tail(l))

\* CSVWriter.__init__(path, cols): the file opened with "w", the header written
CSVWriter(cols) == join(<<",">>, cols) \o <<"\n">>

\* (mutant) append without its assertion
append_unchecked(cols, f, row) ==
    [file |-> f \o join(<<",">>, stringify_list(row)) \o <<"\n">>, outcome |-> ReturnNone]

\* append(row) on the file holding f
append(cols, f, row) ==
    IF Len(row) # Len(cols)
    THEN [file |-> f, outcome |-> Raise("AssertionError")]
    ELSE [file |-> f \o join(<<",">>, stringify_list(row)) \o <<"\n">>, outcome |-> ReturnNone]

\* append_all(rows) on the file holding f
append_all(f, rows) ==
    [file |-> f \o join(<<"\n">>, [i \in 1 .. Len(rows) |-> join(<<",">>, stringify_list(rows[i]))])
                \o <<"\n">>,
     outcome |-> ReturnNone]

SeqsUpTo(S, n) == UNION {[1 .. k -> S] : k \in 0 .. n}
ColumnSets == {<<<<"a">>, <<"b">>>>, <<<<"i", "d">>>>}
Values == {1, 23}
Rows == SeqsUpTo(Values, MaxRowLen)

NewCSVWriter ==
    /\ ~csv.live
    /\ \E cols \in ColumnSets :
          /\ csv' = [live |-> TRUE, cols |-> cols, writes |-> 0]
          /\ file' = CSVWriter(cols)
          /\ written' = <<>>
          /\ last' = Done("CSVWriter", <<cols>>, <<>>, ReturnNone)
    /\ UNCHANGED <<acct, rets, txReads, thr, tdone>>

CallAppend ==
    /\ csv.live
    /\ csv.writes < MaxWrites
    /\ \E row \in Rows :
          LET r == append(csv.cols, file, row)
              wrote == r.outcome.kind = "return"
          IN /\ wrote => Len(written) < MaxRows
             /\ file' = r.file
             /\ written' = IF wrote THEN Append(written, row) ELSE written
             /\ csv' = [csv EXCEPT !.writes = IF wrote THEN @ + 1 ELSE @]
             /\ last' = Done("append", <<row>>, <<>>, r.outcome)
    /\ UNCHANGED <<acct, rets, txReads, thr, tdone>>

CallAppendAll ==
    /\ csv.live
    /\ csv.writes < MaxWrites
    /\ \E rows \in SeqsUpTo(Rows, MaxRows - Len(written)) :
          LET r == append_all(file, rows)
          IN /\ file' = r.file
             /\ written' = written \o rows
             /\ csv' = [csv EXCEPT !.writes = @ + 1]
             /\ last' = Done("append_all", <<rows>>, <<>>, r.outcome)
    /\ UNCHANGED <<acct, rets, txReads, thr, tdone>>

NextCSV ==
    \/ NewCSVWriter
    \/ CallAppend
    \/ CallAppendAll

SpecCSV == Init /\ [][NextCSV]_vars

----------------------------------------------------------------------------
(* get_use_nonce called from several execution contexts on one handle. The *)
(* interpreter may switch contexts between statements and inside the       *)
(* statement self.nonce += 1, which reads and then writes the counter.     *)

Threads == {1, 2}

\* A context outside get_use_nonce. In a call: pc is "loaded" after the read
\* of self.nonce += 1, "stored" after its write
NotCalling == [pc |-> "call", tmp |-> 0, mine |-> 0, between |-> 0, split |-> FALSE]

InitThreads ==
    /\ \E n \in Counts : acct = Handle("k1", n, TRUE)
    /\ rets = <<>>
    /\ txReads = 0
    /\ last = NoCall
    /\ csv = NoWriter
    /\ file = <<>>
    /\ written = <<>>
    /\ thr = [t \in Threads |-> NotCalling]
    /\ tdone = [t \in Threads |-> <<>>]

\* What a step of context t does to another context u's bookkeeping: a step
\* between u's load and store splits u's statement; an increment between u's
\* store and re-read is counted in between
Others(t, incremented) ==
    [u \in Threads |->
        IF u = t THEN thr[u]
        ELSE IF thr[u].pc = "loaded" THEN [thr[u] EXCEPT !.split = TRUE]
        ELSE IF thr[u].pc = "stored" /\ incremented THEN [thr[u] EXCEPT !.between = @ + 1]
        ELSE thr[u]]

\* self.nonce += 1 by context t, first half: the counter is read
ThreadLoad(t) ==
    /\ thr[t].pc = "call"
    /\ Len(tdone[t]) < MaxThreadCalls
    /\ thr' = [Others(t, FALSE) EXCEPT ![t] = [@ EXCEPT !.pc = "loaded", !.tmp = acct.nonce]]
    /\ UNCHANGED <<acct, rets, txReads, last, csv, file, written, tdone>>

\* self.nonce += 1 by context t, second half: the sum is stored. mine is the
\* counter as t left it
ThreadStore(t) ==
    /\ thr[t].pc = "loaded"
    /\ LET stored == get_use_nonce_store(thr[t].tmp)
       IN /\ acct' = [acct EXCEPT !.nonce = stored]
          /\ thr' = [Others(t, TRUE) EXCEPT ![t] = [@ EXCEPT !.pc = "stored", !.mine = stored]]
    /\ UNCHANGED <<rets, txReads, last, csv, file, written, tdone>>

\* return self.nonce - 1, by context t
ThreadReturn(t) ==
    /\ thr[t].pc = "stored"
    /\ LET ret == get_use_nonce_return(acct.nonce)
       IN tdone' = [tdone EXCEPT ![t] =
                        Append(@, [ret |-> ret, mine |-> thr[t].mine,
                                   between |-> thr[t].between, split |-> thr[t].split])]
    /\ thr' = [Others(t, FALSE) EXCEPT ![t] = NotCalling]
    /\ UNCHANGED <<acct, rets, txReads, last, csv, file, written>>

NextThreads == \E t \in Threads : ThreadLoad(t) \/ ThreadStore(t) \/ ThreadReturn(t)

SpecThreads == InitThreads /\ [][NextThreads]_vars

----------------------------------------------------------------------------
(* Claims about the sequential program *)

\* C1: on one handle with starting nonce N used by one sequential caller, the
\* k-th get_use_nonce returns N+k-1 and leaves the counter at N+k.
C1_NoncesInOrder ==
    acct.live =>
        /\ \A k \in 1 .. Len(rets) : rets[k] = acct.init + k - 1
        /\ acct.nonce = acct.init + Len(rets)
        /\ last.op = "get_use_nonce" => last.outcome = Return(acct.nonce - 1)

C1_Witness ==
    /\ acct.live /\ acct.given /\ acct.init = 1
    /\ Len(rets) = 3 /\ last.op = "get_use_nonce"

Broadcasts(log) ==
    Cardinality({i \in DOMAIN log : log[i].fn = "w3.eth.sendRawTransaction"})
SendOps == {"sign_send_tx", "send_ether", "send_tokens"}

\* C2: a call of sign_send_tx never broadcasts more than once, broadcasts the
\* signed transaction exactly once when signing succeeds, and when that attempt
\* times out returns the hash of the signed transaction instead of raising.
C2_BroadcastOnce ==
    last.op \in SendOps =>
        LET from == last.args[1]
            signed_tx == signTransaction(last.args[2], from.privateKey)
        IN /\ Broadcasts(last.log) <= 1
           /\ ValidKey(from.privateKey) =>
                /\ Broadcasts(last.log) = 1
                /\ last.log[1].args = <<signed_tx.rawTransaction>>
           /\ \A i \in DOMAIN last.log :
                last.log[i].reply.kind = "timeout" =>
                    last.outcome = Return(to_hex(signed_tx.hash))

C2_Witness ==
    /\ last.op = "send_tokens"
    /\ Len(last.log) = 1 /\ last.log[1].reply.kind = "timeout"
    /\ last.outcome.kind = "return"

\* C3: a wrapped function whose inner function times out k times and then
\* finishes is invoked k+1 times, each time with the call's arguments; the
\* wrapper returns the last invocation's value, or raises its non-timeout
\* error, and invokes nothing after it.
C3_RetryUntilDone ==
    last.op \in Wrapped =>
        LET log == last.log
            n == Len(log)
        IN /\ \A i \in 1 .. n : log[i] = Invoke(last.op, last.args, log[i].reply)
           /\ Running => \A i \in 1 .. n : log[i].reply.kind = "timeout"
           /\ ~Running =>
                /\ n = Timeouts(log) + 1
                /\ \A i \in 1 .. n - 1 : log[i].reply.kind = "timeout"
                /\ log[n].reply.kind = "ok" => last.outcome = Return(log[n].reply.val[1])
                /\ log[n].reply.kind = "error" => last.outcome = Raise("ValueError")

C3_Witness ==
    /\ last.op = "get_block" /\ ~Running
    /\ Timeouts(last.log) = 2 /\ Len(last.log) = 3
    /\ last.outcome = Return(1)

\* C4: constructing an AccountWrapper without a nonce never raises the node's
\* timeout: the transaction-count fetch is retried until the node answers.
C4_ConstructionRetries ==
    (last.op = "AccountWrapper" /\ last.args[2] = None) => last.outcome.exc # "Timeout"

\* The node reports a receipt that carries a block number
Mined(reply) ==
    /\ reply.kind = "ok"
    /\ reply.val[1] # None
    /\ reply.val[1][1].blockNumber # None

\* C5: wait_for_tx returns at the first poll whose receipt exists and carries
\* a non-null block number (0 included), and at no other poll.
C5_ReturnsWhenMined ==
    last.op = "wait_for_tx" =>
        \A i \in DOMAIN last.log :
            /\ Mined(last.log[i].reply) => (i = Len(last.log) /\ last.outcome = ReturnNone)
            /\ (i = Len(last.log) /\ last.outcome.kind = "return") => Mined(last.log[i].reply)

\* C6: a timeout of the receipt query does not leave wait_for_tx.
C6_PollTimeoutRecovered ==
    last.op = "wait_for_tx" => last.outcome.exc # "Timeout"

\* C7: a handle reads the node's transaction count once at construction when no
\* nonce is given and never otherwise, and no later operation resets the
\* counter: it is the initial value plus the completed get_use_nonce calls.
C7_CounterNeverReread ==
    acct.live =>
        /\ txReads = (IF acct.given THEN 0 ELSE 1)
        /\ acct.nonce = acct.init + Len(rets)
        /\ (last.op \notin Wrapped \cup {"AccountWrapper", "create_account", "none"}) =>
                TxCountCalls(last.log) = 0

C7_Witness ==
    /\ acct.live /\ ~acct.given
    /\ Len(rets) = 2
    /\ last.op = "balance" /\ last.outcome.kind = "return" /\ last.outcome.val # Some(acct.nonce)

----------------------------------------------------------------------------
(* Claims about CSVWriter *)

\* C8: append with a row whose length is not the number of columns raises and
\* leaves the file as it was.
C8_AppendRejectsBadRow ==
    [][(last'.op = "append" /\ Len(last'.args[1]) # Len(csv.cols))
          => (last'.outcome.kind = "raise" /\ file' = file)]_vars

C8_Witness ==
    /\ csv.live /\ Len(written) = 2
    /\ last.op = "append" /\ Len(last.args[1]) = Len(csv.cols) + 1
    /\ last.outcome = Raise("AssertionError")

\* The header line, then one line per row
RECURSIVE Lines(_)
Lines(rows) ==
    IF rows = <<>> THEN <<>>
    ELSE join(<<",">>, stringify_list(rows[1])) \o <<"\n">> \o Lines(Tail(rows))
ExpectedFile == join(<<",">>, csv.cols) \o <<"\n">> \o Lines(written)

\* C9: after any successful append and append_all calls (append_all of no rows
\* included) the file is the header line followed by one line per appended
\* row, in call order, and nothing else.
C9_FileIsHeaderAndRows == csv.live => file = ExpectedFile

----------------------------------------------------------------------------
(* Claims about concurrent callers *)

CallsDone == {c \in Threads \X (1 .. MaxThreadCalls + 1) : c[2] <= Len(tdone[c[1]])}
CallOf(c) == tdone[c[1]][c[2]]
AllReturned == \A t \in Threads : thr[t].pc = "call"
\* The increments made: by the completed calls and by the calls past their store
Increments == Cardinality(CallsDone) + Cardinality({t \in Threads : thr[t].pc = "stored"})

\* The contexts have switched between statements only: no step of one fell
\* between the read and the write of another's self.nonce += 1
StatementGrain ==
    /\ \A c \in CallsDone : ~CallOf(c).split
    /\ \A t \in Threads : ~thr[t].split

\* C10: calls of get_use_nonce from two contexts that interleave between
\* statements return distinct values, and the counter ends higher by the
\* number of calls.
C10_AtomicGetAndIncrement ==
    StatementGrain =>
        /\ \A c, d \in CallsDone : c # d => CallOf(c).ret # CallOf(d).ret
        /\ AllReturned => acct.nonce = acct.init + Cardinality(CallsDone)

\* C10, amended: when the contexts interleave between statements, every call
\* increments the counter exactly once, and a call returns its pre-increment
\* value plus the number of increments other contexts made between its own
\* increment and its re-read; calls with no such increment in between return
\* distinct values.
C10_IncrementsOnceReturnsLate ==
    StatementGrain =>
        /\ acct.nonce = acct.init + Increments
        /\ \A c \in CallsDone : CallOf(c).ret = CallOf(c).mine - 1 + CallOf(c).between
        /\ \A c, d \in CallsDone :
              (c # d /\ CallOf(c).between = 0 /\ CallOf(d).between = 0)
                  => CallOf(c).ret # CallOf(d).ret

C10_Witness ==
    /\ StatementGrain /\ AllReturned
    /\ Len(tdone[1]) = 1 /\ Len(tdone[2]) = 1
    /\ tdone[1][1].ret = tdone[2][1].ret
    /\ acct.nonce = acct.init + 2

====
